---- MODULE Spec2Model ----
(***************************************************************************)
(* Document-processing and summarization pipeline of the Smart Patient     *)
(* Case Summarizer backend (FastAPI + SQLAlchemy).                         *)
(*                                                                         *)
(* The store (patients, documents, summaries) holds COMMITTED rows only.   *)
(* A background run is cut at its commit points, because other requests    *)
(* and runs (other workers, other processes) observe the store between     *)
(* them.  Writes a run has issued but not committed live in the run's own  *)
(* record until its commit step applies them.  A request that is refused   *)
(* (404, 400) changes nothing and appears as a disabled action; reads      *)
(* (get_document, get_summary) return the stored row of the state.         *)
(*                                                                         *)
(* In api/summaries.py the docstring of generate_summary_background (line  *)
(* 19) is indented by three spaces and the body by four; the model follows *)
(* the statements of the body as they are written.                         *)
(*                                                                         *)
(* The helper functions of the summarizer (_extract_red_flags,             *)
(* _extract_lab_results, _extract_medications, _calculate_age) are         *)
(* operators on TLA+ strings that follow Python's str and re operations.   *)
(* The pipeline applies them to its texts; RedFlagSpec, LabSpec, MedSpec   *)
(* and AgeSpec apply each of them alone to a bounded set of inputs.        *)
(***************************************************************************)
EXTENDS Integers, FiniteSets, Sequences, TLC

\* ---------------------------------------------------------------- bounds
\* documents uploaded in the document pipeline taken alone (DocSpec)
MaxDocs == 2
\* documents uploaded when the summarization runs are interleaved (Spec)
MaxSummaryDocs == 1
MaxRuns == 2
\* lines of a generated summary text
MaxLines == 3
\* words of a document text with laboratory values
MaxTokens == 3
\* entries of a medication list
MaxFragments == 11
\* consecutive years of birth, and current years, considered
MaxYears == 2

\* ------------------------------------------------------ program constants
MAX_UPLOAD_SIZE == 10485760
SummaryVersionDefault == 1

\* the registered patients (create_patient is not part of the pipeline)
Patients == {1, 2}
DocIds == 1..MaxDocs
RunIds == 1..MaxRuns
User == "doctor"

\* SQL NULL of a nullable Text column
NULL == "<NULL>"

\* extension part of an uploaded file name, as typed by the client
FileNames == {"pdf", "PNG", "docx", "doc", "bmp", "txt"}
\* the same, for the uploads that feed the summarization runs
SummaryFileNames == {"pdf", "txt"}
FileSizes == {1024, MAX_UPLOAD_SIZE + 1}

\* what the OCR engine can return for a readable file
Texts == {"", "Hemoglobin: 9.2 g/dl"}
IOErrorMessage == "cannot read file"
\* what the generative backend can return
GeneratedTexts == {"## CLINICAL RED FLAGS\n* Hemoglobin 9.2 g/dl"}

\* ------------------------------------------------------------- strings
\* Python's str operations, on TLA+ strings (positions are Python's, from 0)
UpperCase == "ABCDEFGHIJKLMNOPQRSTUVWXYZ"
LowerCase == "abcdefghijklmnopqrstuvwxyz"
LowerTable ==
  [c \in {SubSeq(UpperCase, i, i) : i \in 1..26} |->
     LET i == CHOOSE k \in 1..26 : SubSeq(UpperCase, k, k) = c IN
     SubSeq(LowerCase, i, i)]

\* s[a:b] for 0 <= a
Slice(s, a, b) ==
  LET e == IF b > Len(s) THEN Len(s) ELSE b IN
  IF a >= e THEN "" ELSE SubSeq(s, a + 1, e)

\* s[i]
CharAt(s, i) == SubSeq(s, i + 1, i + 1)

\* s.startswith(sub, i)
StartsWith(s, sub, i) ==
  i + Len(sub) <= Len(s) /\ SubSeq(s, i + 1, i + Len(sub)) = sub

\* s.find(sub, from): the lowest position at or after from, or -1
FindFrom(s, sub, from) ==
  LET found == {i \in from..(Len(s) - Len(sub)) : StartsWith(s, sub, i)} IN
  IF found = {} THEN -1
  ELSE CHOOSE i \in found : \A j \in found : i <= j

\* s.find(sub)
Find(s, sub) == FindFrom(s, sub, 0)

\* sub in s
Contains(s, sub) == Find(s, sub) # -1

\* s.lower()
RECURSIVE Lower(_)
Lower(s) ==
  IF s = "" THEN ""
  ELSE IF Len(s) = 1 THEN (IF s \in DOMAIN LowerTable THEN LowerTable[s] ELSE s)
  ELSE LET h == Len(s) \div 2 IN
       Lower(SubSeq(s, 1, h)) \o Lower(SubSeq(s, h + 1, Len(s)))

\* s.split(sep) for a non-empty separator
RECURSIVE Split(_, _)
Split(s, sep) ==
  LET i == Find(s, sep) IN
  IF i = -1 THEN <<s>>
  ELSE <<Slice(s, 0, i)>> \o Split(Slice(s, i + Len(sep), Len(s)), sep)

\* s.replace(old, new) for a non-empty old
RECURSIVE Replace(_, _, _)
Replace(s, old, new) ==
  LET i == Find(s, old) IN
  IF i = -1 THEN s
  ELSE Slice(s, 0, i) \o new \o Replace(Slice(s, i + Len(old), Len(s)), old, new)

\* the characters str.strip() removes and \s matches
Whitespace == {" ", "\t", "\n", "\r", "\f"}

\* s.strip()
RECURSIVE Strip(_)
Strip(s) ==
  IF s = "" THEN ""
  ELSE IF CharAt(s, 0) \in Whitespace THEN Strip(Slice(s, 1, Len(s)))
  ELSE IF CharAt(s, Len(s) - 1) \in Whitespace THEN Strip(Slice(s, 0, Len(s) - 1))
  ELSE s

\* sep.join(parts)
RECURSIVE Join(_, _)
Join(sep, parts) ==
  IF parts = << >> THEN ""
  ELSE IF Len(parts) = 1 THEN parts[1]
  ELSE parts[1] \o sep \o Join(sep, Tail(parts))

\* s * n
RECURSIVE Repeat(_, _)
Repeat(s, n) ==
  IF n <= 0 THEN ""
  ELSE LET h == Repeat(s, n \div 2) IN
       h \o h \o (IF n % 2 = 1 THEN s ELSE "")

Max(a, b) == IF a >= b THEN a ELSE b

\* ------------------------------------------- summarizer helper functions
\* The two markers of the generated summary, written in ASCII: "*" stands
\* for the red circle (one code point) and "!^" for the warning sign
\* followed by its variation selector (two code points).
CRITICAL_MARKER == "*"
ABNORMAL_MARKER == "!^"
RED_FLAG_WINDOW == 200

\* the loop of _extract_red_flags over the lines still to visit
RECURSIVE RedFlagsOf(_, _)
RedFlagsOf(summary_text, lines) ==
  IF lines = << >> THEN << >>
  ELSE
    LET line == Head(lines)
        pos == Find(summary_text, line)
        window == Slice(summary_text, Max(0, pos - RED_FLAG_WINDOW), pos)
        flag ==
          IF Contains(line, CRITICAL_MARKER)
            THEN <<[category |-> "critical",
                    finding |-> Strip(Replace(line, CRITICAL_MARKER, "")),
                    severity |-> "critical"]>>
          ELSE IF Contains(line, ABNORMAL_MARKER) /\ Contains(window, "RED FLAG")
            THEN <<[category |-> "abnormal",
                    finding |-> Strip(Replace(line, ABNORMAL_MARKER, "")),
                    severity |-> "medium"]>>
          ELSE << >>
    IN flag \o RedFlagsOf(summary_text, Tail(lines))

\* SummarizationService._extract_red_flags
extract_red_flags(summary_text) ==
  RedFlagsOf(summary_text, Split(summary_text, "\n"))

\* lab_patterns: per test, the alternatives of its name in pattern order;
\* every pattern goes on with [:=\s]*(\d+\.?\d*)
lab_patterns ==
  [hemoglobin |-> <<"hemoglobin", "hgb", "hb">>,
   glucose    |-> <<"glucose", "blood sugar">>,
   creatinine |-> <<"creatinine", "cr">>,
   wbc        |-> <<"wbc", "white blood cell">>]
Digits == {"0", "1", "2", "3", "4", "5", "6", "7", "8", "9"}
LabSeparators == {":", "="} \cup Whitespace

\* the end of the longest run of characters of chars that starts at i
SkipWhile(s, i, chars) ==
  LET stops == {j \in i..Len(s) : j = Len(s) \/ CharAt(s, j) \notin chars} IN
  CHOOSE j \in stops : \A k \in stops : j <= k

\* (\d+\.?\d*) matched at position i: the captured text, or NULL
MatchNumber(s, i) ==
  IF i >= Len(s) \/ CharAt(s, i) \notin Digits THEN NULL
  ELSE LET whole == SkipWhile(s, i, Digits)
           point == IF whole < Len(s) /\ CharAt(s, whole) = "."
                      THEN whole + 1 ELSE whole
       IN Slice(s, i, SkipWhile(s, point, Digits))

\* one alternative of a pattern matched at position i: group(1), or NULL
MatchLab(s, i, alias) ==
  IF StartsWith(s, alias, i)
    THEN MatchNumber(s, SkipWhile(s, i + Len(alias), LabSeparators))
    ELSE NULL

\* the search keeping the last match in the text
SearchLabLast(s, aliases) ==
  LET hits == {i \in 0..(Len(s) - 1) :
                 \E k \in DOMAIN aliases : MatchLab(s, i, aliases[k]) # NULL} IN
  IF hits = {} THEN NULL
  ELSE LET i == CHOOSE h \in hits : \A j \in hits : h >= j
           k == CHOOSE a \in DOMAIN aliases :
                  /\ MatchLab(s, i, aliases[a]) # NULL
                  /\ \A b \in 1..(a - 1) : MatchLab(s, i, aliases[b]) = NULL
       IN MatchLab(s, i, aliases[k])

\* re.search(pattern, s).group(1): the leftmost position where an
\* alternative matches, and there the first alternative that does; NULL
\* when there is no match
SearchLab(s, aliases) ==
  LET hits == {i \in 0..(Len(s) - 1) :
                 \E k \in DOMAIN aliases : MatchLab(s, i, aliases[k]) # NULL} IN
  IF hits = {} THEN NULL
  ELSE LET i == CHOOSE h \in hits : \A j \in hits : h <= j
           k == CHOOSE a \in DOMAIN aliases :
                  /\ MatchLab(s, i, aliases[a]) # NULL
                  /\ \A b \in 1..(a - 1) : MatchLab(s, i, aliases[b]) = NULL
       IN MatchLab(s, i, aliases[k])

\* SummarizationService._get_default_unit ("K/uL" stands for K/microlitre)
get_default_unit(lab_name) ==
  LET units == [hemoglobin |-> "g/dL", glucose |-> "mg/dL",
                creatinine |-> "mg/dL", wbc |-> "K/uL"] IN
  IF lab_name \in DOMAIN units THEN units[lab_name] ELSE ""

\* SummarizationService._extract_lab_results: a dict keyed by test name
extract_lab_results(text) ==
  LET text_lower == Lower(text)
      matched == {n \in DOMAIN lab_patterns :
                    SearchLab(text_lower, lab_patterns[n]) # NULL} IN
  [n \in matched |->
     [value |-> SearchLab(text_lower, lab_patterns[n]),
      unit |-> get_default_unit(n)]]

\* the alternatives of medications?|drugs? (matched ignoring case) and the
\* delimiters of the split; the full-width colon is outside the alphabet
\* of the texts considered
MedHeads == <<"medications", "medication", "drugs", "drug">>
MedDelimiters == {",", ";", "\n"}
MAX_MEDICATIONS == 10
MIN_MEDICATION_LENGTH == 3
DOSAGE_PLACEHOLDER == "See original document"

\* the end of ([^\n]+(?:\n[^\n]+)*) started at g: the lines that follow
\* each other without an empty line in between
SectionEnd(s, g) ==
  LET ends == {e \in (g + 1)..Len(s) :
                 \/ e = Len(s)
                 \/ /\ CharAt(s, e) = "\n"
                    /\ (e + 1 = Len(s) \/ CharAt(s, e + 1) = "\n")} IN
  CHOOSE e \in ends : \A k \in ends : e <= k

\* the pattern matched at position i: group(1), or NULL.  \s* takes the
\* white space after the colon; when nothing but white space follows, it
\* gives back up to the last character that is not a newline.
MatchSection(s, i) ==
  LET heads == {k \in DOMAIN MedHeads :
                  /\ i + Len(MedHeads[k]) < Len(s)
                  /\ CharAt(s, i + Len(MedHeads[k])) = ":"
                  /\ Lower(Slice(s, i, i + Len(MedHeads[k]))) = MedHeads[k]} IN
  IF heads = {} THEN NULL
  ELSE LET a == i + Len(MedHeads[CHOOSE k \in heads : TRUE]) + 1
           g == SkipWhile(s, a, Whitespace)
           blanks == {k \in a..(Len(s) - 1) : CharAt(s, k) # "\n"} IN
       IF g < Len(s) THEN Slice(s, g, SectionEnd(s, g))
       ELSE IF blanks = {} THEN NULL
       ELSE CharAt(s, CHOOSE k \in blanks : \A j \in blanks : k >= j)

\* re.search(...).group(1) for the section pattern, or NULL
SearchSection(s) ==
  LET hits == {i \in 0..(Len(s) - 1) : MatchSection(s, i) # NULL} IN
  IF hits = {} THEN NULL
  ELSE MatchSection(s, CHOOSE i \in hits : \A j \in hits : i <= j)

\* re.split(r'[,;\n]+', s)
RECURSIVE ReSplit(_, _)
ReSplit(s, delims) ==
  LET at == {i \in 0..(Len(s) - 1) : CharAt(s, i) \in delims} IN
  IF at = {} THEN <<s>>
  ELSE LET i == CHOOSE x \in at : \A y \in at : x <= y IN
       <<Slice(s, 0, i)>>
         \o ReSplit(Slice(s, SkipWhile(s, i, delims), Len(s)), delims)

\* if line and len(line) > 3, on the stripped fragment
IsMedication(line) == Len(Strip(line)) > MIN_MEDICATION_LENGTH

\* SummarizationService._extract_medications
extract_medications(text) ==
  LET med_text == SearchSection(text) IN
  IF med_text = NULL THEN << >>
  ELSE LET med_lines == ReSplit(med_text, MedDelimiters)
           first == SubSeq(med_lines, 1,
                           IF Len(med_lines) < MAX_MEDICATIONS
                             THEN Len(med_lines) ELSE MAX_MEDICATIONS)
           kept == SelectSeq(first, IsMedication) IN
       [k \in 1..Len(kept) |->
          [name |-> Strip(kept[k]), dosage |-> DOSAGE_PLACEHOLDER]]

\* int(s) for a string of decimal digits, -1 for any other string
DigitValue ==
  [c \in Digits |-> CHOOSE v \in 0..9 : SubSeq("0123456789", v + 1, v + 1) = c]
RECURSIVE ParseInt(_)
ParseInt(s) ==
  IF s = "" THEN -1
  ELSE LET last == CharAt(s, Len(s) - 1)
           front == Slice(s, 0, Len(s) - 1) IN
       IF last \notin Digits THEN -1
       ELSE IF front = "" THEN DigitValue[last]
       ELSE IF ParseInt(front) = -1 THEN -1
       ELSE 10 * ParseInt(front) + DigitValue[last]

\* str(n)
RECURSIVE Str(_)
Str(n) ==
  IF n < 0 THEN "-" \o Str(0 - n)
  ELSE IF n < 10 THEN SubSeq("0123456789", n + 1, n + 1)
  ELSE Str(n \div 10) \o Str(n % 10)

\* the days of a month of the proleptic Gregorian calendar
IsLeap(y) == y % 4 = 0 /\ (y % 100 # 0 \/ y % 400 = 0)
DaysIn(y, m) ==
  IF m = 2 THEN (IF IsLeap(y) THEN 29 ELSE 28)
  ELSE IF m \in {4, 6, 9, 11} THEN 30 ELSE 31
IsDate(y, m, d) ==
  y \in 1..9999 /\ m \in 1..12 /\ d \in 1..DaysIn(y, m)

\* what datetime.fromisoformat raises ValueError for
ParseError == [year |-> -1, month |-> -1, day |-> -1]

\* hh, hh:mm or hh:mm:ss, as fromisoformat reads the time of day
IsTime(t) ==
  /\ Len(t) \in {2, 5, 8}
  /\ ParseInt(Slice(t, 0, 2)) \in 0..23
  /\ Len(t) >= 5 => CharAt(t, 2) = ":" /\ ParseInt(Slice(t, 3, 5)) \in 0..59
  /\ Len(t) >= 8 => CharAt(t, 5) = ":" /\ ParseInt(Slice(t, 6, 8)) \in 0..59

\* the part after the date: nothing, or one separator character, the time
\* of day and possibly an offset +hh:mm or -hh:mm
IsTimePart(r) ==
  \/ r = ""
  \/ /\ Len(r) >= 3
     /\ LET t == Slice(r, 1, Len(r))
            signs == {i \in 0..(Len(t) - 1) : CharAt(t, i) \in {"+", "-"}} IN
        IF signs = {} THEN IsTime(t)
        ELSE LET i == CHOOSE x \in signs : \A y \in signs : x <= y IN
             /\ IsTime(Slice(t, 0, i))
             /\ Len(t) - i = 6
             /\ IsTime(Slice(t, i + 1, Len(t)))

\* datetime.fromisoformat(s): YYYY-MM-DD, possibly followed by a time
fromisoformat(s) ==
  LET y == ParseInt(Slice(s, 0, 4))
      m == ParseInt(Slice(s, 5, 7))
      d == ParseInt(Slice(s, 8, 10)) IN
  IF /\ Len(s) >= 10
     /\ CharAt(s, 4) = "-" /\ CharAt(s, 7) = "-"
     /\ IsDate(y, m, d)
     /\ IsTimePart(Slice(s, 10, Len(s)))
    THEN [year |-> y, month |-> m, day |-> d]
    ELSE ParseError

\* a date of birth as the caller holds it: None, a str, or a datetime
NoDate == [kind |-> "None"]
StrDate(s) == [kind |-> "str", value |-> s]
DateTime(y, m, d) == [kind |-> "datetime", year |-> y, month |-> m, day |-> d]

\* the age taken as the difference of the years alone
calculate_age_YearDifference(date_of_birth, today) ==
  IF date_of_birth = NoDate \/ date_of_birth = StrDate("") THEN "Unknown"
  ELSE LET dob == IF date_of_birth.kind = "str"
                    THEN fromisoformat(Replace(date_of_birth.value, "Z", "+00:00"))
                    ELSE date_of_birth IN
       IF dob = ParseError THEN "Unknown"
       ELSE Str(today.year - dob.year)

\* SummarizationService._calculate_age, today being datetime.now()
calculate_age(date_of_birth, today) ==
  IF date_of_birth = NoDate \/ date_of_birth = StrDate("") THEN "Unknown"
  ELSE LET dob == IF date_of_birth.kind = "str"
                    THEN fromisoformat(Replace(date_of_birth.value, "Z", "+00:00"))
                    ELSE date_of_birth IN
       IF dob = ParseError THEN "Unknown"
       ELSE Str(today.year - dob.year
                  - (IF \/ today.month < dob.month
                        \/ today.month = dob.month /\ today.day < dob.day
                       THEN 1 ELSE 0))

allowed_extensions == {"pdf", "jpg", "jpeg", "png", "tiff", "doc", "docx"}
image_types == {"jpg", "jpeg", "png", "tiff", "bmp"}

Ok(v) == [ok |-> TRUE, value |-> v]
Err(m) == [ok |-> FALSE, value |-> m]

\* outcome of opening, rasterizing and OCR-ing a file (process_pdf,
\* process_image): the text, or the exception they re-raise
ReadOutcomes == {Ok(t) : t \in Texts} \cup {Err(IOErrorMessage)}

\* an outcome together with the file steps that were attempted to get it
Traced(outcome, steps) ==
  [ok |-> outcome.ok, value |-> outcome.value, io |-> steps]

\* process_pdf rasterizes the file and OCRs the pages it got; process_image
\* opens the file and OCRs the image it got
process_pdf(read) ==
  Traced(read, IF read.ok THEN <<"convert_from_path", "image_to_string">>
                          ELSE <<"convert_from_path">>)
process_image(read) ==
  Traced(read, IF read.ok THEN <<"Image.open", "image_to_string">>
                          ELSE <<"Image.open">>)

\* the dispatch handing every type to the image reader
extract_text_from_file_ReadFirst(file_type, read) ==
  LET ft == Lower(file_type) IN
  IF ft = "pdf" THEN process_pdf(read)
  ELSE process_image(read)

\* OCRService.extract_text_from_file
extract_text_from_file(file_type, read) ==
  LET ft == Lower(file_type) IN
  IF ft = "pdf" THEN process_pdf(read)
  ELSE IF ft \in image_types THEN process_image(read)
  ELSE Traced(Err("Unsupported file type: " \o ft), << >>)

VARIABLES
  patients,      \* ids of the stored Patient rows
  documents,     \* stored Document rows, by id
  nextDocId,     \* next fresh Document id
  docTask,       \* position of process_document_background, per document id
  summaries,     \* stored Summary rows, by id
  nextSummaryId, \* next fresh Summary id
  runs,          \* generate_summary_background runs, by run id
  response,      \* last response of POST /summaries/generate/{patient_id}
  everVersions,  \* history: versions ever stored, per patient
  nCommits,      \* history: successful summary commits, per patient
  deletedFor,    \* history: patients that had a summary deleted
  overlapped,    \* history: patients for which two runs overlapped
  call           \* a call of one of the summarizer's pure helper functions

vars == <<patients, documents, nextDocId, docTask, summaries, nextSummaryId,
          runs, response, everVersions, nCommits, deletedFor, overlapped, call>>

storeVars == <<patients, documents, nextDocId, docTask, summaries,
               nextSummaryId, runs, response, everVersions, nCommits,
               deletedFor, overlapped>>
docVars == <<documents, nextDocId, docTask>>
sumVars == <<summaries, nextSummaryId, runs>>
histVars == <<everVersions, nCommits, deletedFor, overlapped>>

\* ----------------------------------------------------------------- rows
\* the document created as already processed
NewDocumentProcessed(p, name) ==
  [patient_id |-> p, file_name |-> name, file_type |-> Lower(name),
   ocr_text |-> NULL, processed |-> TRUE,
   processing_status |-> "pending", error_message |-> NULL]

\* Document(...) as built by upload_document; unset columns take the
\* column defaults of the model
NewDocument(p, name) ==
  [patient_id |-> p, file_name |-> name, file_type |-> Lower(name),
   ocr_text |-> NULL, processed |-> FALSE,
   processing_status |-> "pending", error_message |-> NULL]

\* Summary(...) as built by generate_summary_background; version is not
\* passed, so the column default applies
NewSummary(p, u, summary_data) ==
  [patient_id |-> p, created_by |-> u,
   summary_text |-> summary_data.summary_text,
   red_flags |-> summary_data.red_flags,
   lab_results |-> summary_data.lab_results,
   medications |-> summary_data.medications,
   version |-> SummaryVersionDefault, is_latest |-> TRUE]

Remove(f, ids) == [k \in (DOMAIN f) \ ids |-> f[k]]
Put(f, k, v) == [x \in (DOMAIN f) \cup {k} |-> IF x = k THEN v ELSE f[x]]

DocsOf(p) == {d \in DOMAIN documents : documents[d].patient_id = p}
SummariesOf(p) == {s \in DOMAIN summaries : summaries[s].patient_id = p}
LatestOf(p) == {s \in SummariesOf(p) : summaries[s].is_latest}
ProcessedDocsOf(p) == {d \in DocsOf(p) : documents[d].processed}

\* the pipeline before any request
StoreInit ==
  /\ patients = Patients
  /\ documents = << >>
  /\ nextDocId = 1
  /\ docTask = << >>
  /\ summaries = << >>
  /\ nextSummaryId = 1
  /\ runs = << >>
  /\ response = [op |-> "none", code |-> 0, patient_id |-> 0]
  /\ everVersions = [p \in Patients |-> {}]
  /\ nCommits = [p \in Patients |-> 0]
  /\ deletedFor = {}
  /\ overlapped = {}

\* no helper call under observation
NoCall == [fn |-> "none", input |-> NULL, output |-> NULL, done |-> FALSE]

\* a helper called with input, before it has returned
NewCall(fn, input) == [fn |-> fn, input |-> input, output |-> NULL, done |-> FALSE]

Init == StoreInit /\ call = NoCall

\* ------------------------------------------------------------ documents
\* a queued process_document_background call: where it stands, the file
\* name of the document it loaded at line 24 (NULL while it has loaded
\* none), and the outcome of its extraction once it has one
NoResult == Traced(Err(NULL), << >>)
NewTask == [pc |-> "queued", file_name |-> NULL, result |-> NoResult]

\* the upload storing an office document as completed without a run
upload_document_Completed(p, name, size) ==
  /\ p \in patients
  /\ Lower(name) \in allowed_extensions
  /\ size <= MAX_UPLOAD_SIZE
  /\ documents' = Put(documents, nextDocId,
                      IF Lower(name) \in {"doc", "docx"}
                        THEN [NewDocument(p, name) EXCEPT
                                !.processing_status = "completed",
                                !.processed = TRUE, !.ocr_text = ""]
                        ELSE NewDocument(p, name))
  /\ docTask' = Put(docTask, nextDocId, NewTask)
  /\ nextDocId' = nextDocId + 1
  /\ UNCHANGED <<call, patients, sumVars, response, histVars>>

\* POST /documents/upload/{patient_id}: 404, 400 or the new pending
\* document with its background task
upload_document(p, name, size) ==
  /\ p \in patients
  /\ Lower(name) \in allowed_extensions
  /\ size <= MAX_UPLOAD_SIZE
  /\ documents' = Put(documents, nextDocId, NewDocument(p, name))
  /\ docTask' = Put(docTask, nextDocId, NewTask)
  /\ nextDocId' = nextDocId + 1
  /\ UNCHANGED <<call, patients, sumVars, response, histVars>>

\* the except block storing the status without the error text
FailDocumentNoMessage(docs, d, msg) ==
  [docs EXCEPT ![d].processing_status = "failed"]

\* lines 52-53, the writes of the except block
FailDocument(docs, d, msg) ==
  [docs EXCEPT ![d].processing_status = "failed",
               ![d].error_message = msg]

\* the success path losing the extracted text
CompleteDocumentDropsText(docs, d, text) ==
  [docs EXCEPT ![d].processed = TRUE,
               ![d].processing_status = "completed"]

\* lines 41-43, the writes after a successful extraction
CompleteDocument(docs, d, text) ==
  [docs EXCEPT ![d].ocr_text = text,
               ![d].processed = TRUE,
               ![d].processing_status = "completed"]

\* the run going to extraction without storing the in-flight status
MarkProcessingSkipped(docs, d) == docs

\* line 30, the write before extraction
MarkProcessing(docs, d) ==
  [docs EXCEPT ![d].processing_status = "processing"]

\* lines 48-54, the except block: reload the document and, when it is still
\* there, store failed with the error text.  The block does not roll the
\* session back and is not itself guarded: when its query or its commit
\* raises, the exception leaves the run and nothing is stored.
ExceptBlock(docs, d, msg, queryRaises, commitRaises) ==
  IF queryRaises THEN [documents |-> docs, pc |-> "raised"]
  ELSE IF d \notin DOMAIN docs THEN [documents |-> docs, pc |-> "returned"]
  ELSE IF commitRaises THEN [documents |-> docs, pc |-> "raised"]
  ELSE [documents |-> FailDocument(docs, d, msg), pc |-> "returned"]

\* the run taking the missing document for a failure
ProcessStartAbsentRaises(d) ==
  /\ d \in DOMAIN docTask
  /\ docTask[d].pc = "queued"
  /\ IF d \notin DOMAIN documents
       THEN /\ docTask' = [docTask EXCEPT ![d].pc = "raised"]
            /\ UNCHANGED documents
       ELSE /\ documents' = MarkProcessing(documents, d)
            /\ docTask' = [docTask EXCEPT ![d].pc = "processing",
                                          ![d].file_name = documents[d].file_name]
  /\ UNCHANGED <<call, patients, nextDocId, sumVars, response, histVars>>

\* process_document_background, from its start to the first commit
\* (lines 23-31)
ProcessStart(d) ==
  /\ d \in DOMAIN docTask
  /\ docTask[d].pc = "queued"
  /\ IF d \notin DOMAIN documents
       THEN /\ docTask' = [docTask EXCEPT ![d].pc = "returned"]
            /\ UNCHANGED documents
       ELSE /\ documents' = MarkProcessing(documents, d)
            /\ docTask' = [docTask EXCEPT ![d].pc = "processing",
                                          ![d].file_name = documents[d].file_name]
  /\ UNCHANGED <<call, patients, nextDocId, sumVars, response, histVars>>

\* process_document_background, from the extraction to its end (lines
\* 33-54).  When the row was deleted while the run was extracting, the
\* commit of line 44 raises (no row to update) and the except block runs on
\* a session whose flush failed: its query raises, or finds no document.
ProcessFinish(d, read, queryRaises) ==
  /\ d \in DOMAIN docTask
  /\ docTask[d].pc = "processing"
  /\ IF d \notin DOMAIN documents
       THEN LET h == ExceptBlock(documents, d, "row deleted", queryRaises, FALSE) IN
            /\ docTask' = [docTask EXCEPT ![d].pc = h.pc]
            /\ documents' = h.documents
       ELSE LET res == extract_text_from_file(documents[d].file_name, read)
                h == ExceptBlock(documents, d, res.value, FALSE, FALSE) IN
            /\ queryRaises = FALSE
            /\ documents' = IF res.ok
                              THEN CompleteDocument(documents, d, res.value)
                              ELSE h.documents
            /\ docTask' = [docTask EXCEPT ![d].pc =
                                            IF res.ok THEN "returned" ELSE h.pc,
                                          ![d].result = res]
  /\ UNCHANGED <<call, patients, nextDocId, sumVars, response, histVars>>

\* the same two steps when the store fails under them.
\* The commit of line 31 raises: the write is rolled back, the except
\* block runs.
ProcessStartStoreError(d, queryRaises, commitRaises) ==
  /\ d \in DOMAIN docTask
  /\ docTask[d].pc = "queued"
  /\ d \in DOMAIN documents
  /\ LET h == ExceptBlock(documents, d, "commit failed", queryRaises, commitRaises) IN
     /\ documents' = h.documents
     /\ docTask' = [docTask EXCEPT ![d].pc = h.pc,
                                   ![d].file_name = documents[d].file_name]
  /\ UNCHANGED <<call, patients, nextDocId, sumVars, response, histVars>>

\* The commit of line 44 raises after a successful extraction (the writes
\* of lines 41-43 are rolled back), or the except block's own query or
\* commit raises after a failed one.
ProcessFinishStoreError(d, read, queryRaises, commitRaises) ==
  /\ d \in DOMAIN docTask
  /\ docTask[d].pc = "processing"
  /\ d \in DOMAIN documents
  /\ LET res == extract_text_from_file(documents[d].file_name, read)
         h == ExceptBlock(documents, d,
                          IF res.ok THEN "commit failed" ELSE res.value,
                          queryRaises, commitRaises) IN
     /\ res.ok \/ queryRaises \/ commitRaises
     /\ documents' = h.documents
     /\ docTask' = [docTask EXCEPT ![d].pc = h.pc, ![d].result = res]
  /\ UNCHANGED <<call, patients, nextDocId, sumVars, response, histVars>>

\* DELETE /documents/{document_id} (404 when there is no such document)
delete_document(d) ==
  /\ d \in DOMAIN documents
  /\ documents' = Remove(documents, {d})
  /\ UNCHANGED <<call, patients, nextDocId, docTask, sumVars, response, histVars>>

\* DELETE /patients/{patient_id} (404 when there is no such patient); the
\* relationships cascade the delete to the patient's documents and summaries
delete_patient(p) ==
  /\ p \in patients
  /\ patients' = patients \ {p}
  /\ documents' = Remove(documents, DocsOf(p))
  /\ summaries' = Remove(summaries, SummariesOf(p))
  /\ deletedFor' = IF SummariesOf(p) = {} THEN deletedFor ELSE deletedFor \cup {p}
  /\ UNCHANGED <<call, nextDocId, docTask, nextSummaryId, runs, response,
                 everVersions, nCommits, overlapped>>

\* ------------------------------------------------------------ summaries
\* a run before it has its summary_data
NoSummaryData ==
  [summary_text |-> NULL, red_flags |-> << >>, lab_results |-> << >>,
   medications |-> << >>]

NewRun(p, u) ==
  [patient_id |-> p, user_id |-> u, pc |-> "queued",
   summary_data |-> NoSummaryData, demoted |-> {}, created |-> 0]

\* the request checking for any document instead of a processed one
generate_summary_AnyDocument(p, u) ==
  /\ Cardinality(DOMAIN runs) < MaxRuns
  /\ IF p \notin patients
       THEN /\ response' = [op |-> "generate_summary", code |-> 404,
                             patient_id |-> p]
            /\ UNCHANGED runs
     ELSE IF Cardinality(DocsOf(p)) = 0
       THEN /\ response' = [op |-> "generate_summary", code |-> 400,
                             patient_id |-> p]
            /\ UNCHANGED runs
     ELSE /\ runs' = Put(runs, Cardinality(DOMAIN runs) + 1, NewRun(p, u))
          /\ response' = [op |-> "generate_summary", code |-> 202,
                           patient_id |-> p]
  /\ UNCHANGED <<call, patients, docVars, summaries, nextSummaryId, histVars>>

\* POST /summaries/generate/{patient_id}
generate_summary(p, u) ==
  /\ Cardinality(DOMAIN runs) < MaxRuns
  /\ IF p \notin patients
       THEN /\ response' = [op |-> "generate_summary", code |-> 404,
                             patient_id |-> p]
            /\ UNCHANGED runs
     ELSE IF Cardinality(ProcessedDocsOf(p)) = 0
       THEN /\ response' = [op |-> "generate_summary", code |-> 400,
                             patient_id |-> p]
            /\ UNCHANGED runs
     ELSE /\ runs' = Put(runs, Cardinality(DOMAIN runs) + 1, NewRun(p, u))
          /\ response' = [op |-> "generate_summary", code |-> 202,
                           patient_id |-> p]
  /\ UNCHANGED <<call, patients, docVars, summaries, nextSummaryId, histVars>>

\* [doc.ocr_text for doc in documents if doc.ocr_text]: NULL and the empty
\* string are both falsy
DocumentsText(p) ==
  {documents[d].ocr_text : d \in {x \in ProcessedDocsOf(p) :
      documents[x].ocr_text # NULL /\ documents[x].ocr_text # ""}}

\* the texts of DocumentsText in the order of the rows, taken as the
\* order of their ids
RECURSIVE TextsInOrder(_)
TextsInOrder(ids) ==
  IF ids = {} THEN << >>
  ELSE LET d == CHOOSE x \in ids : \A y \in ids : x <= y IN
       <<documents[d].ocr_text>> \o TextsInOrder(ids \ {d})
documents_text(p) ==
  TextsInOrder({d \in ProcessedDocsOf(p) :
                  documents[d].ocr_text # NULL /\ documents[d].ocr_text # ""})

BackendOutcomes == {Ok(t) : t \in GeneratedTexts} \cup {Err("backend error")}

\* SummarizationService.generate_summary once the backend has answered
\* with summary_text (lines 38, 60-76)
summary_data_of(texts, summary_text) ==
  LET combined_text == Join("\n\n--- Document Separator ---\n\n", texts) IN
  [summary_text |-> summary_text,
   red_flags |-> extract_red_flags(summary_text),
   lab_results |-> extract_lab_results(combined_text),
   medications |-> extract_medications(combined_text)]

\* the run calling the backend although no document has text
SummaryGenerateWithoutText(r, backend) ==
  /\ r \in DOMAIN runs
  /\ runs[r].pc = "queued"
  /\ LET p == runs[r].patient_id IN
     runs' = [runs EXCEPT ![r] =
       IF p \notin patients THEN [@ EXCEPT !.pc = "returned"]
       ELSE IF ProcessedDocsOf(p) = {} THEN [@ EXCEPT !.pc = "returned"]
       ELSE IF ~backend.ok THEN [@ EXCEPT !.pc = "failed"]
       ELSE [@ EXCEPT !.pc = "generated",
                      !.summary_data =
                         summary_data_of(documents_text(p), backend.value)]]
  /\ UNCHANGED <<call, patients, docVars, summaries, nextSummaryId, response, histVars>>

\* generate_summary_background, from its start to the returned summary_data
\* (lines 20-63): the early returns, then the generative call
SummaryGenerate(r, backend) ==
  /\ r \in DOMAIN runs
  /\ runs[r].pc = "queued"
  /\ LET p == runs[r].patient_id IN
     runs' = [runs EXCEPT ![r] =
       IF p \notin patients THEN [@ EXCEPT !.pc = "returned"]
       ELSE IF ProcessedDocsOf(p) = {} THEN [@ EXCEPT !.pc = "returned"]
       ELSE IF DocumentsText(p) = {} THEN [@ EXCEPT !.pc = "returned"]
       ELSE IF ~backend.ok THEN [@ EXCEPT !.pc = "failed"]
       ELSE [@ EXCEPT !.pc = "generated",
                      !.summary_data =
                         summary_data_of(documents_text(p), backend.value)]]
  /\ UNCHANGED <<call, patients, docVars, summaries, nextSummaryId, response, histVars>>

\* the demotion committed on its own, ahead of the insert
SummaryDemoteAutocommit(r) ==
  /\ r \in DOMAIN runs
  /\ runs[r].pc = "generated"
  /\ LET p == runs[r].patient_id IN
     /\ runs' = [runs EXCEPT ![r].pc = "demoted", ![r].demoted = LatestOf(p)]
     /\ summaries' = [s \in DOMAIN summaries |->
                        IF s \in LatestOf(p)
                          THEN [summaries[s] EXCEPT !.is_latest = FALSE]
                          ELSE summaries[s]]
     /\ overlapped' = IF \E o \in DOMAIN runs :
                            o # r /\ runs[o].patient_id = p /\ runs[o].pc = "demoted"
                        THEN overlapped \cup {p} ELSE overlapped
  /\ UNCHANGED <<call, patients, docVars, nextSummaryId, response,
                 everVersions, nCommits, deletedFor>>

\* lines 65-69: UPDATE summaries SET is_latest = false WHERE patient_id = p
\* AND is_latest, issued inside the run's open transaction.  The statement
\* matches the rows committed when it runs; its writes stay invisible to
\* every other session until the run commits.
SummaryDemote(r) ==
  /\ r \in DOMAIN runs
  /\ runs[r].pc = "generated"
  /\ LET p == runs[r].patient_id IN
     /\ runs' = [runs EXCEPT ![r].pc = "demoted", ![r].demoted = LatestOf(p)]
     /\ overlapped' = IF \E o \in DOMAIN runs :
                            o # r /\ runs[o].patient_id = p /\ runs[o].pc = "demoted"
                        THEN overlapped \cup {p} ELSE overlapped
  /\ UNCHANGED <<call, patients, docVars, summaries, nextSummaryId, response,
                 everVersions, nCommits, deletedFor>>

\* the commit editing the demoted rows with the new text
ApplyCommitEditsDemoted(sums, demoted, id, row) ==
  Put([s \in DOMAIN sums |->
         IF s \in demoted
           THEN [sums[s] EXCEPT !.is_latest = FALSE,
                                !.summary_text = row.summary_text \o " (superseded)"]
           ELSE sums[s]],
      id, row)

\* the committed effect of a run's transaction: its demotions (of the rows
\* that still exist) and its insert, together
ApplyCommit(sums, demoted, id, row) ==
  Put([s \in DOMAIN sums |->
         IF s \in demoted THEN [sums[s] EXCEPT !.is_latest = FALSE] ELSE sums[s]],
      id, row)

\* lines 72-83: build the Summary, add it, commit.  The commit fails on the
\* foreign key when the patient row is gone; the except block logs it.
SummaryCommit(r) ==
  /\ r \in DOMAIN runs
  /\ runs[r].pc = "demoted"
  /\ LET p == runs[r].patient_id
         row == NewSummary(p, runs[r].user_id, runs[r].summary_data) IN
     IF p \notin patients
       THEN /\ runs' = [runs EXCEPT ![r].pc = "failed"]
            /\ UNCHANGED <<summaries, nextSummaryId, everVersions, nCommits>>
       ELSE /\ summaries' = ApplyCommit(summaries, runs[r].demoted, nextSummaryId, row)
            /\ nextSummaryId' = nextSummaryId + 1
            /\ runs' = [runs EXCEPT ![r].pc = "done", ![r].created = nextSummaryId]
            /\ everVersions' = [everVersions EXCEPT ![p] = @ \cup {row.version}]
            /\ nCommits' = [nCommits EXCEPT ![p] = @ + 1]
  /\ UNCHANGED <<call, patients, docVars, response, deletedFor, overlapped>>

\* the delete handing is_latest on to the newest Summary that is left
delete_summary_Promotes(s) ==
  /\ s \in DOMAIN summaries
  /\ LET p == summaries[s].patient_id
         left == SummariesOf(p) \ {s}
         rest == Remove(summaries, {s}) IN
     summaries' =
       IF summaries[s].is_latest /\ left # {}
         THEN [rest EXCEPT ![CHOOSE m \in left : \A x \in left : x <= m].is_latest = TRUE]
         ELSE rest
  /\ deletedFor' = deletedFor \cup {summaries[s].patient_id}
  /\ UNCHANGED <<call, patients, docVars, nextSummaryId, runs, response,
                 everVersions, nCommits, overlapped>>

\* DELETE /summaries/{summary_id} (404 when there is no such summary)
delete_summary(s) ==
  /\ s \in DOMAIN summaries
  /\ summaries' = Remove(summaries, {s})
  /\ deletedFor' = deletedFor \cup {summaries[s].patient_id}
  /\ UNCHANGED <<call, patients, docVars, nextSummaryId, runs, response,
                 everVersions, nCommits, overlapped>>

\* a store operation of the run raises (its first query, the UPDATE, or the
\* commit): the open transaction is rolled back, the except block logs it
SummaryStoreError(r) ==
  /\ r \in DOMAIN runs
  /\ runs[r].pc \in {"queued", "generated", "demoted"}
  /\ runs' = [runs EXCEPT ![r].pc = "failed"]
  /\ UNCHANGED <<call, patients, docVars, summaries, nextSummaryId, response, histVars>>

\* ------------------------------------------------------- specifications
DocActions ==
  \/ \E d \in DocIds : ProcessStart(d)
  \/ \E d \in DocIds, read \in ReadOutcomes, q \in BOOLEAN :
       ProcessFinish(d, read, q)
  \/ \E d \in DocIds : delete_document(d)
  \/ \E p \in Patients : delete_patient(p)

DocFaults ==
  \/ \E d \in DocIds, q, c \in BOOLEAN : ProcessStartStoreError(d, q, c)
  \/ \E d \in DocIds, read \in ReadOutcomes, q, c \in BOOLEAN :
       ProcessFinishStoreError(d, read, q, c)

SummaryActions ==
  \/ \E p \in Patients : generate_summary(p, User)
  \/ \E r \in RunIds, b \in BackendOutcomes : SummaryGenerate(r, b)
  \/ \E r \in RunIds : SummaryDemote(r)
  \/ \E r \in RunIds : SummaryCommit(r)
  \/ \E s \in RunIds : delete_summary(s)

\* uploads, while fewer than limit documents have been created
UploadWithin(limit, names) ==
  /\ nextDocId <= limit
  /\ \E p \in Patients, name \in names, size \in FileSizes :
       upload_document(p, name, size)

\* the document pipeline alone, on a store that does not fail
DocNext == UploadWithin(MaxDocs, FileNames) \/ DocActions
DocSpec == Init /\ [][DocNext]_vars

\* the document pipeline alone, on a store whose operations may raise
DocFaultNext == UploadWithin(MaxDocs, FileNames) \/ DocActions \/ DocFaults
DocSpecFault == Init /\ [][DocFaultNext]_vars

\* the whole pipeline (PDF uploads), on a store that does not fail
Next ==
  \/ UploadWithin(MaxSummaryDocs, SummaryFileNames)
  \/ DocActions
  \/ SummaryActions
Spec == Init /\ [][Next]_vars

\* the whole pipeline, with a store whose operations may raise under the
\* summarization runs
FaultNext ==
  \/ UploadWithin(MaxSummaryDocs, SummaryFileNames)
  \/ DocActions
  \/ SummaryActions
  \/ \E r \in RunIds : SummaryStoreError(r)
SpecFault == Init /\ [][FaultNext]_vars

\* ------------------------------------- the helper functions taken alone
\* the helper fn returning out to its caller
Return(fn, out) ==
  /\ call.fn = fn
  /\ ~call.done
  /\ call' = [call EXCEPT !.output = out, !.done = TRUE]
  /\ UNCHANGED storeVars

\* lines of a generated summary: the heading in the case the code looks
\* for and in another, an abnormal and a critical finding, and two lines
\* of text that put the heading at either edge of the window
RedFlagLines ==
  {"RED FLAG", "Red Flags", "!^ K 5.9", "* sepsis",
   Repeat("x", RED_FLAG_WINDOW - 10), Repeat("x", RED_FLAG_WINDOW - 9)}
RedFlagTexts ==
  {Join("\n", ls) : ls \in UNION {[1..n -> RedFlagLines] : n \in 1..MaxLines}}

extract_red_flags_call ==
  Return("_extract_red_flags", extract_red_flags(call.input))
RedFlagInit ==
  StoreInit /\ call \in {NewCall("_extract_red_flags", t) : t \in RedFlagTexts}
RedFlagSpec == RedFlagInit /\ [][extract_red_flags_call]_vars

\* words of a document text around laboratory values
LabTokens ==
  {"Hemoglobin:", "hgb 13", "Glucose", "CRP", "cr=", "WBC", "9.2", "110",
   "g/dl,", "low"}
LabTexts ==
  {Join(" ", ws) : ws \in UNION {[1..n -> LabTokens] : n \in 1..MaxTokens}}

extract_lab_results_call ==
  Return("_extract_lab_results", extract_lab_results(call.input))
LabInit ==
  StoreInit /\ call \in {NewCall("_extract_lab_results", t) : t \in LabTexts}
LabSpec == LabInit /\ [][extract_lab_results_call]_vars

\* document texts with a list of up to MaxFragments entries, some of them
\* too short to be a medication, under a medications heading or not
MedFragments == {"ASA", "Aspirin 81mg"}
MedHeadings == {"Medications: ", "Plan: "}
MedTexts ==
  {h \o Join(", ", fs) :
     h \in MedHeadings,
     fs \in UNION {[1..n -> MedFragments] : n \in 0..MaxFragments}}

extract_medications_call ==
  Return("_extract_medications", extract_medications(call.input))
MedInit ==
  StoreInit /\ call \in {NewCall("_extract_medications", t) : t \in MedTexts}
MedSpec == MedInit /\ [][extract_medications_call]_vars

\* n written with at least w digits
RECURSIVE Pad(_, _)
Pad(n, w) == IF Len(Str(n)) >= w THEN Str(n) ELSE "0" \o Pad(n, w - 1)

\* date.isoformat()
DateStr(y, m, d) == Pad(y, 4) \o "-" \o Pad(m, 2) \o "-" \o Pad(d, 2)

\* dates of birth and current dates around a birthday, the end of February
\* and the turn of the year
BirthYears == 1999..(1999 + MaxYears - 1)
CurrentYears == 2024..(2024 + MaxYears - 1)
Months == {2, 6, 12}
Days == {14, 15, 29, 31}
Malformed ==
  {"15/06/2000", "2000-6-15", "June 15, 2000", "2000-06-15T25:00:00"}
DatesOfBirth ==
  {NoDate, StrDate(""), StrDate("2000-06-15T08:30:00Z"), DateTime(2000, 6, 15)}
    \cup {StrDate(x) : x \in Malformed}
    \cup {StrDate(DateStr(y, m, d)) : y \in BirthYears, m \in Months, d \in Days}
CurrentDates ==
  {DateTime(t[1], t[2], t[3]) :
     t \in {x \in CurrentYears \X Months \X Days : IsDate(x[1], x[2], x[3])}}

calculate_age_call ==
  Return("_calculate_age",
         calculate_age(call.input.date_of_birth, call.input.today))
AgeInit ==
  /\ StoreInit
  /\ call \in {NewCall("_calculate_age", [date_of_birth |-> b, today |-> t]) :
                 b \in DatesOfBirth, t \in CurrentDates}
AgeSpec == AgeInit /\ [][calculate_age_call]_vars

\* ================================================================ claims
Finished(d) == docTask[d].pc \in {"returned", "raised"}

\* C1: the stored processing_status of a document starts at pending and
\* changes only pending -> processing, processing -> completed or
\* processing -> failed; nothing skips processing and nothing leaves
\* completed or failed.
C1_StatusTransitions ==
  [][/\ \A d \in (DOMAIN documents') \ (DOMAIN documents) :
          documents'[d].processing_status = "pending"
     /\ \A d \in (DOMAIN documents) \cap (DOMAIN documents') :
          \/ documents'[d].processing_status = documents[d].processing_status
          \/ <<documents[d].processing_status, documents'[d].processing_status>>
               \in {<<"pending", "processing">>,
                    <<"processing", "completed">>,
                    <<"processing", "failed">>}]_vars

\* one document has gone all the way to completed and another to failed
C1_Witness ==
  \E d1, d2 \in DOMAIN documents :
    /\ documents[d1].processing_status = "completed"
    /\ documents[d2].processing_status = "failed"
    /\ Finished(d1) /\ Finished(d2)

\* C2: once the run has loaded an existing document, it ends with the
\* stored status completed or failed on every exit path, a raising
\* extraction and a raising persistence step included; the document is
\* never left in processing.
C2_RunEndsTerminal ==
  \A d \in DOMAIN documents :
    Finished(d) => documents[d].processing_status \in {"completed", "failed"}

\* C7: in every stored state of every document, error_message is non-null
\* exactly when the status is failed and ocr_text is non-null exactly when
\* the status is completed.
C7_ErrorAndTextMatchStatus ==
  \A d \in DOMAIN documents :
    /\ (documents[d].error_message # NULL)
         <=> (documents[d].processing_status = "failed")
    /\ (documents[d].ocr_text # NULL)
         <=> (documents[d].processing_status = "completed")

\* a failed document with its error text and no extracted text, next to a
\* completed one whose extracted text is the empty string
C7_Witness ==
  /\ \E d \in DOMAIN documents :
       /\ documents[d].processing_status = "failed"
       /\ documents[d].error_message # NULL
       /\ documents[d].ocr_text = NULL
  /\ \E d \in DOMAIN documents :
       /\ documents[d].processing_status = "completed"
       /\ documents[d].ocr_text = ""

\* C10: a run on a document that exists ends, when the extraction
\* succeeded, with status completed, ocr_text the extracted text and no
\* error_message; when the extraction failed, with status failed, a
\* non-null error_message and no ocr_text; and no exception leaves the run.
C10_RunOutcome ==
  \A d \in DOMAIN documents :
    Finished(d) =>
      LET res == docTask[d].result
          doc == documents[d] IN
      /\ docTask[d].pc = "returned"
      /\ res.ok => /\ doc.processing_status = "completed"
                   /\ doc.ocr_text = res.value
                   /\ doc.error_message = NULL
      /\ ~res.ok => /\ doc.processing_status = "failed"
                    /\ doc.error_message = res.value
                    /\ doc.error_message # NULL
                    /\ doc.ocr_text = NULL

\* one run has ended after a successful extraction, another after an
\* unsupported file type
C10_Witness ==
  \E d1, d2 \in DOMAIN documents :
    /\ docTask[d1].pc = "returned" /\ docTask[d1].result.ok
    /\ docTask[d2].pc = "returned" /\ ~docTask[d2].result.ok
    /\ documents[d2].error_message = "Unsupported file type: docx"

MaxOf(S) == IF S = {} THEN 0 ELSE CHOOSE m \in S : \A x \in S : x <= m
VersionsOf(p) == {summaries[s].version : s \in SummariesOf(p)}

\* C3: in every reachable state of any interleaving of concurrent
\* summarization runs, each patient has at most one stored Summary with
\* is_latest = true.
C3_AtMostOneLatest ==
  \A p \in Patients : Cardinality(LatestOf(p)) <= 1

\* C4: after N >= 1 successful sequential commits for a patient and no
\* deletion, exactly one of the patient's Summaries is latest, it is the
\* one committed last, and the stored versions are exactly 1..N.
C4_SequentialVersions ==
  \A p \in Patients :
    (nCommits[p] >= 1 /\ p \notin deletedFor /\ p \notin overlapped) =>
      /\ Cardinality(SummariesOf(p)) = nCommits[p]
      /\ LatestOf(p) = {MaxOf(SummariesOf(p))}
      /\ VersionsOf(p) = 1..nCommits[p]

\* C5: when two commits for the same patient overlap and both succeed,
\* exactly one of the patient's Summaries is latest and the two new
\* Summaries carry the versions v+1 and v+2, v being the highest version
\* stored before both (0 if none).
C5_ConcurrentCommits ==
  \A r1, r2 \in DOMAIN runs :
    (/\ r1 # r2
     /\ runs[r1].patient_id = runs[r2].patient_id
     /\ runs[r1].pc = "done" /\ runs[r2].pc = "done"
     /\ runs[r1].patient_id \in overlapped
     /\ runs[r1].patient_id \notin deletedFor) =>
      LET p == runs[r1].patient_id
          new == {runs[r1].created, runs[r2].created}
          v == MaxOf({summaries[s].version : s \in SummariesOf(p) \ new}) IN
      /\ Cardinality(LatestOf(p)) = 1
      /\ {summaries[s].version : s \in new} = {v + 1, v + 2}

\* C6: every newly created Summary gets a version strictly greater than
\* every version created earlier for the same patient, also after
\* deletions, so no version is assigned twice.
C6_VersionsNeverReused ==
  [][\A s \in (DOMAIN summaries') \ (DOMAIN summaries) :
       \A v \in everVersions[summaries'[s].patient_id] :
         summaries'[s].version > v]_vars

\* C8: a summarization run that fails at any step leaves the stored
\* Summaries as they were and creates none: every step of a run other than
\* its successful commit leaves the store untouched, and a demotion becomes
\* visible only together with the insert of the same run.
C8_FailedRunLeavesSummaries ==
  [][/\ \A r \in DOMAIN runs :
          (runs'[r].pc # runs[r].pc /\ runs'[r].pc # "done")
            => summaries' = summaries
     /\ \A r \in DOMAIN runs' :
          runs'[r].pc = "failed" => runs'[r].created = 0
     /\ (\E s \in (DOMAIN summaries) \cap (DOMAIN summaries') :
           summaries'[s] # summaries[s])
          => \E r \in DOMAIN runs :
               /\ runs[r].pc = "demoted" /\ runs'[r].pc = "done"
               /\ runs'[r].created \in (DOMAIN summaries') \ (DOMAIN summaries)]_vars

\* a run has failed after issuing its demotion, and the Summary it had
\* matched is still stored as latest
C8_Witness ==
  \E r \in DOMAIN runs :
    /\ runs[r].pc = "failed"
    /\ runs[r].demoted # {}
    /\ \A s \in runs[r].demoted :
         s \in DOMAIN summaries /\ summaries[s].is_latest

CompletedDocsOf(p) ==
  {d \in DocsOf(p) : documents[d].processing_status = "completed"}

\* C9: a summarization request for an existing patient is accepted and a
\* run enqueued only if the patient has a completed document at request
\* time; with none, the request gets 400, no run is enqueued and no Summary
\* is created or changed.
C9_RequestNeedsCompletedDocument ==
  [][/\ \A r \in (DOMAIN runs') \ (DOMAIN runs) :
          CompletedDocsOf(runs'[r].patient_id) # {}
     /\ (response' # response /\ response'.op = "generate_summary") =>
          LET p == response'.patient_id IN
          /\ response'.code = 202 =>
               /\ CompletedDocsOf(p) # {}
               /\ DOMAIN runs' # DOMAIN runs
          /\ response'.code = 400 =>
               /\ p \in patients
               /\ CompletedDocsOf(p) = {}
               /\ runs' = runs
               /\ summaries' = summaries
          /\ (p \in patients /\ CompletedDocsOf(p) = {}) => response'.code = 400]_vars

\* a request was refused with 400 for a patient whose only document is not
\* completed
C9_Witness ==
  \E p \in patients :
    /\ response = [op |-> "generate_summary", code |-> 400, patient_id |-> p]
    /\ DocsOf(p) # {}
    /\ CompletedDocsOf(p) = {}

\* C11: a processing run started on a document id that is not in the store
\* returns without raising, invokes no extraction (it loads no file name
\* and gets no result) and leaves every document record as it was.
C11_AbsentDocumentNoOp ==
  [][\A d \in DOMAIN docTask :
       (/\ docTask[d].pc = "queued"
        /\ d \notin DOMAIN documents
        /\ docTask'[d] # docTask[d]) =>
         /\ docTask'[d] = [pc |-> "returned", file_name |-> NULL,
                           result |-> NoResult]
         /\ docTask'[d].result.io = << >>
         /\ documents' = documents]_vars

\* a run has returned without ever loading a document, its document having
\* been deleted before it started, while another document is still stored
C11_Witness ==
  \E d \in DOMAIN docTask :
    /\ d \notin DOMAIN documents
    /\ docTask[d].pc = "returned"
    /\ docTask[d].file_name = NULL
    /\ docTask[d].result = NoResult
    /\ DOMAIN documents # {}

\* the file types extract_text_from_file hands to a reader
SupportedTypes == {"pdf"} \cup image_types

\* C12: for a file type that is neither pdf nor a supported image type,
\* extract_text_from_file fails with the unsupported-type error and no
\* file step (open, rasterize, OCR) has been attempted, whatever the file
\* would have yielded.
C12_UnsupportedBeforeRead ==
  /\ \A ft \in FileNames, read \in ReadOutcomes :
       Lower(ft) \notin SupportedTypes =>
         extract_text_from_file(ft, read) =
           [ok |-> FALSE, value |-> "Unsupported file type: " \o Lower(ft),
            io |-> << >>]
  /\ \A d \in DOMAIN docTask :
       (docTask[d].file_name # NULL
          /\ Lower(docTask[d].file_name) \notin SupportedTypes) =>
         /\ docTask[d].result.io = << >>
         /\ docTask[d].result # NoResult =>
              /\ ~docTask[d].result.ok
              /\ docTask[d].result.value =
                   "Unsupported file type: " \o Lower(docTask[d].file_name)

\* a run on a docx document has ended with the unsupported-type error and
\* an empty trace of file steps, next to a run that did read its file
C12_Witness ==
  \E d1, d2 \in DOMAIN docTask :
    /\ docTask[d1].file_name = "docx"
    /\ docTask[d1].pc = "returned"
    /\ docTask[d1].result =
         [ok |-> FALSE, value |-> "Unsupported file type: docx", io |-> << >>]
    /\ docTask[d2].result.io # << >>

\* the red flags the statement of C14 describes: the window of an abnormal
\* line ends at that line's own position (offset) and the heading is
\* looked for in any case
RECURSIVE ClaimedRedFlags(_, _, _)
ClaimedRedFlags(summary_text, lines, offset) ==
  IF lines = << >> THEN << >>
  ELSE
    LET line == Head(lines)
        window == Slice(summary_text, Max(0, offset - RED_FLAG_WINDOW), offset)
        flag ==
          IF Contains(line, CRITICAL_MARKER)
            THEN <<[category |-> "critical",
                    finding |-> Strip(Replace(line, CRITICAL_MARKER, "")),
                    severity |-> "critical"]>>
          ELSE IF Contains(line, ABNORMAL_MARKER)
                    /\ Contains(Lower(window), "red flag")
            THEN <<[category |-> "abnormal",
                    finding |-> Strip(Replace(line, ABNORMAL_MARKER, "")),
                    severity |-> "medium"]>>
          ELSE << >>
    IN flag \o ClaimedRedFlags(summary_text, Tail(lines), offset + Len(line) + 1)

\* C14: the red flags extracted from a summary text are, in line order,
\* one critical flag per line with the critical marker and one abnormal
\* (medium) flag per line with the abnormal marker and no critical marker
\* exactly when "RED FLAG", in any case, occurs in the 200 characters
\* before that line's own position.
C14_RedFlagWindow ==
  call.done =>
    call.output = ClaimedRedFlags(call.input, Split(call.input, "\n"), 0)

\* v is written as digits, with at most one point after the first digit
IsNumber(v) ==
  /\ v # ""
  /\ CharAt(v, 0) \in Digits
  /\ \A k \in 0..(Len(v) - 1) : CharAt(v, k) \in Digits \cup {"."}
  /\ Cardinality({k \in 0..(Len(v) - 1) : CharAt(v, k) = "."}) <= 1

\* the places <<i, j>> of text where a name or alias of the test starts at
\* i and is followed, after colons, equal signs and blanks only, by a
\* digit at j
NamedNumbers(text, names) ==
  LET named == {ki \in (DOMAIN names) \X (0..Len(text)) :
                  StartsWith(text, names[ki[1]], ki[2])} IN
  UNION {{<<ki[2], j>> :
            j \in {x \in (ki[2] + Len(names[ki[1]]))..(Len(text) - 1) :
                     /\ CharAt(text, x) \in Digits
                     /\ \A y \in (ki[2] + Len(names[ki[1]]))..(x - 1) :
                          CharAt(text, y) \in LabSeparators}} :
         ki \in named}

\* C15: lab extraction returns at most one result per test among
\* hemoglobin, glucose, creatinine and wbc; a test is in the result exactly
\* when its name or an alias is followed by a number in the text, its value
\* is the first such number and its unit the canonical unit of the test.
C15_LabResults ==
  call.done =>
    LET text == Lower(call.input)
        out == call.output
        canonical == [hemoglobin |-> "g/dL", glucose |-> "mg/dL",
                      creatinine |-> "mg/dL", wbc |-> "K/uL"] IN
    /\ DOMAIN out \subseteq {"hemoglobin", "glucose", "creatinine", "wbc"}
    /\ \A n \in {"hemoglobin", "glucose", "creatinine", "wbc"} :
         LET places == NamedNumbers(text, lab_patterns[n]) IN
         /\ (n \in DOMAIN out) <=> (places # {})
         /\ (n \in DOMAIN out) =>
              /\ out[n].unit = canonical[n]
              /\ DOMAIN out[n] = {"value", "unit"}
              /\ IsNumber(out[n].value)
              /\ \E ij \in places :
                   /\ \A o \in places : ij[1] <= o[1]
                   /\ StartsWith(text, out[n].value, ij[2])
                   /\ \A e \in (ij[2] + Len(out[n].value) + 1)..Len(text) :
                        ~IsNumber(Slice(text, ij[2], e))

\* hemoglobin is named twice with two numbers and the first one is the
\* value, with the canonical unit
C15_Witness ==
  /\ call.done
  /\ call.input = "Hemoglobin: 9.2 hgb 13"
  /\ call.output = [hemoglobin |-> [value |-> "9.2", unit |-> "g/dL"]]

\* C16: medication extraction returns, in order, the fragments of the
\* matched section (split on commas, semicolons and newlines) that are
\* non-empty after trimming and longer than 3 characters, at most the
\* first 10 of these, each with the placeholder dosage; without a section
\* it returns the empty list.
C16_Medications ==
  call.done =>
    LET section == SearchSection(call.input)
        fragments == IF section = NULL THEN << >>
                     ELSE SelectSeq(ReSplit(section, {",", ";", "\n"}), IsMedication)
        n == IF Len(fragments) < 10 THEN Len(fragments) ELSE 10 IN
    call.output =
      [k \in 1..n |-> [name |-> Strip(fragments[k]),
                       dosage |-> "See original document"]]

\* C17: the age is the current year minus the year of birth, minus 1
\* exactly when the current (month, day) is before the (month, day) of
\* birth; 2000-06-15 gives 23 on 2024-06-14 and 24 on 2024-06-15; an absent
\* or unparseable date of birth gives "Unknown".
C17_Age ==
  call.done =>
    LET b == call.input.date_of_birth
        t == call.input.today IN
    /\ \A y \in BirthYears, m \in Months, d \in Days :
         (IsDate(y, m, d)
            /\ b \in {StrDate(DateStr(y, m, d)), DateTime(y, m, d),
                      StrDate(DateStr(y, m, d) \o "T08:30:00Z")}) =>
           call.output =
             Str(t.year - y
                   - (IF <<t.month, t.day>> \in
                           {md \in (1..12) \X (1..31) :
                              md[1] < m \/ (md[1] = m /\ md[2] < d)}
                        THEN 1 ELSE 0))
    /\ (b \in {StrDate("2000-06-15"), DateTime(2000, 6, 15)}
          /\ t = DateTime(2024, 6, 14)) => call.output = "23"
    /\ (b \in {StrDate("2000-06-15"), DateTime(2000, 6, 15)}
          /\ t = DateTime(2024, 6, 15)) => call.output = "24"
    /\ (\/ b \in {NoDate, StrDate("")}
        \/ b \in {StrDate(x) : x \in Malformed}
        \/ \E y \in BirthYears, m \in Months, d \in Days :
             ~IsDate(y, m, d) /\ b = StrDate(DateStr(y, m, d)))
         => call.output = "Unknown"

\* the age of someone born on 2000-06-15 has been computed on the eve of
\* the birthday in 2024
C17_Witness ==
  /\ call.done
  /\ call.input = [date_of_birth |-> StrDate("2000-06-15"),
                   today |-> DateTime(2024, 6, 14)]
  /\ call.output = "23"

\* C13: no step of the pipeline changes a field of a stored Summary other
\* than is_latest, and every run that commits adds one new Summary under
\* an id that was not stored before.
C13_SummaryImmutable ==
  [][/\ \A s \in (DOMAIN summaries) \cap (DOMAIN summaries') :
          /\ summaries'[s].summary_text = summaries[s].summary_text
          /\ summaries'[s].red_flags = summaries[s].red_flags
          /\ summaries'[s].lab_results = summaries[s].lab_results
          /\ summaries'[s].medications = summaries[s].medications
          /\ summaries'[s].version = summaries[s].version
          /\ summaries'[s].patient_id = summaries[s].patient_id
          /\ summaries'[s].created_by = summaries[s].created_by
     /\ \A r \in DOMAIN runs :
          (runs[r].pc # "done" /\ runs'[r].pc = "done") =>
            /\ runs'[r].created \notin DOMAIN summaries
            /\ DOMAIN summaries' = (DOMAIN summaries) \cup {runs'[r].created}
            /\ summaries'[runs'[r].created].summary_text =
                 runs[r].summary_data.summary_text]_vars

\* a Summary with extracted red flags and lab results has been demoted by
\* a later run of the same patient, whose Summary is stored next to it
C13_Witness ==
  \E s1, s2 \in DOMAIN summaries :
    /\ s1 < s2
    /\ summaries[s1].patient_id = summaries[s2].patient_id
    /\ ~summaries[s1].is_latest /\ summaries[s2].is_latest
    /\ summaries[s1].red_flags # << >>
    /\ "hemoglobin" \in DOMAIN summaries[s1].lab_results

\* C18: in every stored state of every document, processed is true exactly
\* when processing_status is completed, so the documents selected by
\* processed = true are exactly the patient's completed documents.
C18_ProcessedIffCompleted ==
  /\ \A d \in DOMAIN documents :
       documents[d].processed <=> (documents[d].processing_status = "completed")
  /\ \A p \in Patients : ProcessedDocsOf(p) = CompletedDocsOf(p)

\* a patient has a completed document, which is selected, next to a failed
\* one, which is not
C18_Witness ==
  \E p \in patients, d1, d2 \in DOMAIN documents :
    /\ documents[d1].patient_id = p /\ documents[d2].patient_id = p
    /\ documents[d1].processing_status = "completed"
    /\ documents[d2].processing_status = "failed"
    /\ ProcessedDocsOf(p) = {d1}

\* C19: a step that deletes Summaries of a patient who stays removes
\* exactly one Summary and leaves every other one as it was, and no step
\* ever turns is_latest of a stored Summary from false to true: after the
\* latest one is deleted the patient has no latest Summary until a run
\* commits a new one.
C19_DeleteSummaryFrame ==
  [][/\ (/\ patients' = patients
         /\ DOMAIN summaries' # DOMAIN summaries
         /\ DOMAIN summaries' \subseteq DOMAIN summaries) =>
          \E s \in DOMAIN summaries :
            /\ DOMAIN summaries' = (DOMAIN summaries) \ {s}
            /\ \A o \in DOMAIN summaries' : summaries'[o] = summaries[o]
            /\ {o \in DOMAIN summaries' :
                   /\ summaries'[o].patient_id = summaries[s].patient_id
                   /\ summaries'[o].is_latest}
                 = LatestOf(summaries[s].patient_id) \ {s}
     /\ \A s \in (DOMAIN summaries) \cap (DOMAIN summaries') :
          summaries'[s].is_latest => summaries[s].is_latest]_vars

\* the latest Summary of a patient was deleted and the older one that is
\* left is not latest
C19_Witness ==
  \E p \in patients :
    /\ p \in deletedFor
    /\ SummariesOf(p) # {}
    /\ LatestOf(p) = {}

\* C20: a document uploaded with extension doc or docx is pending until
\* its run starts and never completed, and its run ends with the status
\* failed and the unsupported-file-type message; every completed document
\* has extension pdf, jpg, jpeg, png or tiff.
C20_OfficeDocumentsFail ==
  \A d \in DOMAIN documents :
    LET doc == documents[d]
        ext == Lower(doc.file_name) IN
    /\ ext \in {"doc", "docx"} =>
         /\ doc.processing_status # "completed"
         /\ docTask[d].pc = "queued" => doc.processing_status = "pending"
         /\ Finished(d) =>
              /\ doc.processing_status = "failed"
              /\ doc.error_message = "Unsupported file type: " \o ext
    /\ doc.processing_status = "completed" =>
         ext \in {"pdf", "jpg", "jpeg", "png", "tiff"}

\* the runs of a doc and of a docx document have both ended in failed
C20_Witness ==
  \E d1, d2 \in DOMAIN documents :
    /\ documents[d1].file_name = "doc" /\ documents[d2].file_name = "docx"
    /\ Finished(d1) /\ Finished(d2)
    /\ documents[d1].error_message = "Unsupported file type: doc"
    /\ documents[d2].error_message = "Unsupported file type: docx"

\* C21: when a run reads the store, it goes on to the generative backend
\* only if the patient exists and one of the patient's processed documents
\* has non-empty ocr_text; otherwise it returns without calling the backend
\* and changes no Summary.  A run demotes only after the backend answered,
\* creates only after it demoted, and a run that returned does nothing more.
C21_RunNeedsPatientAndText ==
  [][\A r \in DOMAIN runs :
       LET p == runs[r].patient_id
           readable == /\ p \in patients
                       /\ \E d \in DOMAIN documents :
                            /\ documents[d].patient_id = p
                            /\ documents[d].processed
                            /\ documents[d].ocr_text \notin {NULL, ""} IN
       /\ (runs[r].pc = "queued" /\ runs'[r].pc # "queued") =>
            /\ readable => runs'[r].pc \in {"generated", "failed"}
            /\ ~readable =>
                 /\ runs'[r] = [runs[r] EXCEPT !.pc = "returned"]
                 /\ summaries' = summaries
       /\ (runs'[r].pc = "demoted" /\ runs[r].pc # "demoted") =>
            runs[r].pc = "generated"
       /\ (runs'[r].pc = "done" /\ runs[r].pc # "done") =>
            runs[r].pc = "demoted"
       /\ runs[r].pc = "returned" => runs'[r] = runs[r]
       /\ (\E s \in DOMAIN summaries' :
             s \notin DOMAIN summaries /\ summaries'[s].patient_id = p
               /\ runs'[r].created = s)
            => runs[r].summary_data.summary_text # NULL]_vars

\* an accepted request whose run has returned without a Summary: the
\* patient is still there, but the completed document has no text
C21_Witness ==
  \E r \in DOMAIN runs :
    LET p == runs[r].patient_id IN
    /\ runs[r].pc = "returned"
    /\ runs[r].summary_data = NoSummaryData
    /\ p \in patients
    /\ ProcessedDocsOf(p) # {}
    /\ \A d \in ProcessedDocsOf(p) : documents[d].ocr_text = ""
    /\ SummariesOf(p) = {}
====
